---- MODULE Spec2Model ----
(***************************************************************************)
(* Model of runtests (src/main.rs): the tool spawns the automation test    *)
(* runner, waits for it, loads <reports>\index.json, decodes it into a     *)
(* TestPass, sorts the tests by full_test_path and prints the report.      *)
(*                                                                         *)
(* Text is modelled as a sequence of code units (integers): 94 is '^',     *)
(* 40 is '(', 41 is ')', 97.. are 'a'.., 65.. are 'A'..                    *)
(* An output line is a record: kind (which println! produced it), color,   *)
(* label, text and nums (the values formatted into it), and test/entry,    *)
(* the loop positions of the test and entry it was printed for.            *)
(***************************************************************************)
EXTENDS Integers, Sequences, FiniteSets

VARIABLES pc, out, panic_message, test_exit_code, buffer, doc,
          index_json_string, test_pass, ignore_regexes, ti, ei

vars == <<pc, out, panic_message, test_exit_code, buffer, doc,
          index_json_string, test_pass, ignore_regexes, ti, ei>>

\* ---------------------------------------------------------------- bounds
MaxTests == 2
MaxEntries == 2
MaxPatterns == 2
MaxSortTests == 3
MaxBufLen == 5

\* ------------------------------------------------------------- i32 values
I32Max == 2147483647
I32Min == -I32Max - 1

\* a + b leaves the range of i32 (stated without forming the sum)
AddOverflows(a, b) ==
    \/ b > 0 /\ a > I32Max - b
    \/ b < 0 /\ a < I32Min - b

\* i32 addition with overflow checks off: two's complement wrap-around
WrappingAdd(a, b) ==
    IF ~AddOverflows(a, b) THEN a + b
    ELSE IF b > 0 THEN (a - I32Max - 1) + (b - I32Max - 1)
    ELSE (a + I32Max + 1) + (b + I32Max + 1)

\* ----------------------------------------------------------- enum variants
EntryType == {"Info", "Warning", "Error"}

TestResult ==
    {"NotRun", "InProcess", "Fail", "Success", "NotEnoughParticipants"}

\* ------------------------------------------------- String::from_utf8_lossy
ReplacementChar == 65533

IsCont(b) == b >= 128 /\ b <= 191

\* number of bytes the sequence introduced by lead byte b has (0: b cannot lead)
Utf8Width(b) ==
    IF b < 128 THEN 1
    ELSE IF b >= 194 /\ b <= 223 THEN 2
    ELSE IF b >= 224 /\ b <= 239 THEN 3
    ELSE IF b >= 240 /\ b <= 244 THEN 4
    ELSE 0

\* the range the second byte of a sequence led by b must lie in
SecondOk(b, c) ==
    IF b = 224 THEN c >= 160 /\ c <= 191
    ELSE IF b = 237 THEN c >= 128 /\ c <= 159
    ELSE IF b = 240 THEN c >= 144 /\ c <= 191
    ELSE IF b = 244 THEN c >= 128 /\ c <= 143
    ELSE IsCont(c)

\* how many bytes starting at k form a valid prefix of one encoded scalar
ValidPrefixLen(bytes, k) ==
    LET b == bytes[k]
        w == Utf8Width(b)
        n == Len(bytes)
    IN  IF w <= 1 THEN w
        ELSE IF k + 1 > n \/ ~SecondOk(b, bytes[k + 1]) THEN 1
        ELSE IF w = 2 THEN 2
        ELSE IF k + 2 > n \/ ~IsCont(bytes[k + 2]) THEN 2
        ELSE IF w = 3 THEN 3
        ELSE IF k + 3 > n \/ ~IsCont(bytes[k + 3]) THEN 3
        ELSE 4

CodePoint(bytes, k, w) ==
    IF w = 1 THEN bytes[k]
    ELSE IF w = 2 THEN (bytes[k] % 32) * 64 + (bytes[k + 1] % 64)
    ELSE IF w = 3 THEN (bytes[k] % 16) * 4096 + (bytes[k + 1] % 64) * 64
                       + (bytes[k + 2] % 64)
    ELSE (bytes[k] % 8) * 262144 + (bytes[k + 1] % 64) * 4096
         + (bytes[k + 2] % 64) * 64 + (bytes[k + 3] % 64)

RECURSIVE LossyFrom(_, _)
LossyFrom(bytes, k) ==
    IF k > Len(bytes) THEN << >>
    ELSE LET w == Utf8Width(bytes[k])
             p == ValidPrefixLen(bytes, k)
         IN  IF w > 0 /\ p = w
             THEN <<CodePoint(bytes, k, w)>> \o LossyFrom(bytes, k + w)
             ELSE <<ReplacementChar>>
                  \o LossyFrom(bytes, k + (IF p = 0 THEN 1 ELSE p))

from_utf8_lossy(bytes) == LossyFrom(bytes, 1)

\* ----------------------------------------------------------- utf_from_bytes
Bom == 65279

\* &buffer[n..]: panics when n is past the end of the slice
SliceFrom(bytes, n) ==
    IF n > Len(bytes) THEN [panic |-> TRUE, bytes |-> << >>]
    ELSE [panic |-> FALSE, bytes |-> SubSeq(bytes, n + 1, Len(bytes))]

BomSkip == 3

\* a slip: the marker is skipped by its length in characters, not in bytes
utf_from_bytes_one(buf) ==
    LET s == from_utf8_lossy(buf)
    IN  IF Len(s) > 0 /\ s[1] = Bom
        THEN LET rest == SliceFrom(buf, 1)
             IN  [panic |-> rest.panic, text |-> from_utf8_lossy(rest.bytes)]
        ELSE [panic |-> FALSE, text |-> s]

utf_from_bytes(buf) ==
    LET s == from_utf8_lossy(buf)
    IN  IF Len(s) > 0 /\ s[1] = Bom
        THEN LET rest == SliceFrom(buf, BomSkip)
             IN  [panic |-> rest.panic, text |-> from_utf8_lossy(rest.bytes)]
        ELSE [panic |-> FALSE, text |-> s]

\* -------------------------------------------------------------- regex::Regex
\* The pattern language modelled: literals, the anchor '^' (94) and the group
\* brackets '(' (40) and ')' (41).  Regex::new rejects unbalanced brackets.
RECURSIVE GroupsBalanced(_, _, _)
GroupsBalanced(p, k, depth) ==
    IF k > Len(p) THEN depth = 0
    ELSE IF p[k] = 40 THEN GroupsBalanced(p, k + 1, depth + 1)
    ELSE IF p[k] = 41 THEN depth > 0 /\ GroupsBalanced(p, k + 1, depth - 1)
    ELSE GroupsBalanced(p, k + 1, depth)

RegexNewOk(p) == GroupsBalanced(p, 1, 0)

\* does p[k..] match message at position pos (brackets only group)
RECURSIVE MatchHere(_, _, _, _)
MatchHere(p, k, message, pos) ==
    IF k > Len(p) THEN TRUE
    ELSE IF p[k] = 94 THEN pos = 1 /\ MatchHere(p, k + 1, message, pos)
    ELSE IF p[k] \in {40, 41} THEN MatchHere(p, k + 1, message, pos)
    ELSE /\ pos <= Len(message)
         /\ message[pos] = p[k]
         /\ MatchHere(p, k + 1, message, pos + 1)

\* Regex::is_match: an unanchored search
is_match(p, message) ==
    \E start \in 1..(Len(message) + 1) : MatchHere(p, 1, message, start)

\* a slip in the loop: "return false" inside it, after the first pattern
IgnoreFirstOnly(message, regexes, k) ==
    IF k > Len(regexes) THEN "false"
    ELSE IF ~RegexNewOk(regexes[k]) THEN "panic"
    ELSE IF is_match(regexes[k], message) THEN "true"
    ELSE "false"

\* should_ignore_message: "panic" when Regex::new(..).unwrap() fails
RECURSIVE IgnoreFrom(_, _, _)
IgnoreFrom(message, regexes, k) ==
    IF k > Len(regexes) THEN "false"
    ELSE IF ~RegexNewOk(regexes[k]) THEN "panic"
    ELSE IF is_match(regexes[k], message) THEN "true"
    ELSE IgnoreFrom(message, regexes, k + 1)

should_ignore_message(message, regexes) == IgnoreFrom(message, regexes, 1)

\* ------------------------------------------------------------- String::cmp
RECURSIVE CmpFrom(_, _, _)
CmpFrom(a, b, k) ==
    IF k > Len(a) /\ k > Len(b) THEN 0
    ELSE IF k > Len(a) THEN -1
    ELSE IF k > Len(b) THEN 1
    ELSE IF a[k] < b[k] THEN -1
    ELSE IF a[k] > b[k] THEN 1
    ELSE CmpFrom(a, b, k + 1)

StrCmp(a, b) == CmpFrom(a, b, 1)

\* the comparator given to sort_by
CompareTests(a, b) == StrCmp(a.full_test_path, b.full_test_path)

\* ------------------------------------------------------------ Vec::sort_by
\* a slip in the sort: an element is inserted before the elements equal to it
RECURSIVE InsertBeforeEqual(_, _, _)
InsertBeforeEqual(sorted, x, k) ==
    IF k = 0 \/ CompareTests(sorted[k], x) < 0
    THEN SubSeq(sorted, 1, k) \o <<x>> \o SubSeq(sorted, k + 1, Len(sorted))
    ELSE InsertBeforeEqual(sorted, x, k - 1)

\* the stable sort: each element is inserted after the elements not greater
RECURSIVE InsertTail(_, _, _)
InsertTail(sorted, x, k) ==
    IF k = 0 \/ CompareTests(sorted[k], x) <= 0
    THEN SubSeq(sorted, 1, k) \o <<x>> \o SubSeq(sorted, k + 1, Len(sorted))
    ELSE InsertTail(sorted, x, k - 1)

RECURSIVE SortFrom(_, _, _)
SortFrom(tests, k, acc) ==
    IF k > Len(tests) THEN acc
    ELSE SortFrom(tests, k + 1, InsertTail(acc, tests[k], Len(acc)))

sort_by(tests) == SortFrom(tests, 1, << >>)

\* -------------------------------------------------- Display for i32 ("{}")
RECURSIVE Digits(_)
Digits(n) ==
    IF n < 10 THEN <<48 + n>> ELSE Digits(n \div 10) \o <<48 + (n % 10)>>

\* the digits of m + 1, the magnitude of the negative number -(m + 1)
SuccDigits(m) ==
    LET d == ((m % 10) + 1) % 10
        q == (m \div 10) + (IF m % 10 = 9 THEN 1 ELSE 0)
    IN  IF q = 0 THEN <<48 + d>> ELSE Digits(q) \o <<48 + d>>

Decimal(n) == IF n < 0 THEN <<45>> \o SuccDigits(-(n + 1)) ELSE Digits(n)

\* ------------------------------------------------------------ output lines
Line(kind, color, label, text, t, e) ==
    [kind |-> kind, color |-> color, label |-> label, text |-> text,
     test |-> t, entry |-> e]

pass_message == [label |-> "     Success ", color |-> "bright_green"]
fail_message == [label |-> "        Fail ", color |-> "red"]
warn_message == [label |-> "     Warning ", color |-> "yellow"]
log_info == [label |-> "        Info ", color |-> "white"]
log_warn == [label |-> "     Warning ", color |-> "yellow"]
log_error == [label |-> "       Error ", color |-> "red"]

\* ------------------------------------------------ serde_json::from_str
\* index.json is held as buffer, the file's bytes up to and including the
\* opening brace of the document, and doc, the document the rest denotes.
\* doc.syntax is "ok" unless the text is no JSON ("invalid") or a field of
\* the schema is absent ("missing_field") or of another type ("mistyped_field").
Whitespace == {32, 9, 10, 13}

RECURSIVE SkipWs(_)
SkipWs(text) ==
    IF Len(text) > 0 /\ text[1] \in Whitespace THEN SkipWs(Tail(text)) ELSE text

EntryDecodes(e) == e.entry_type \in EntryType

TestDecodes(t) ==
    /\ t.state \in TestResult
    /\ \A k \in 1..Len(t.entries) : EntryDecodes(t.entries[k])

from_str_ok(text, d) ==
    /\ SkipWs(text) = <<123>>
    /\ d.syntax = "ok"
    /\ \A k \in 1..Len(d.tests) : TestDecodes(d.tests[k])

\* the TestPass value of a document that decodes
from_str(d) ==
    [succeeded |-> d.succeeded,
     succeeded_with_warnings |-> d.succeeded_with_warnings,
     failed |-> d.failed, not_run |-> d.not_run, in_process |-> d.in_process,
     total_duration |-> d.total_duration, tests |-> d.tests]

NoTestPass ==
    [succeeded |-> 0, succeeded_with_warnings |-> 0, failed |-> 0,
     not_run |-> 0, in_process |-> << >>, total_duration |-> 0, tests |-> << >>]

\* ------------------------------------------------------------------ main
ExitCodes == {0, 1}

Pending == [kind |-> "none", code |-> 0]

success(status) == status.kind = "code" /\ status.code = 0

Spawn ==
    /\ pc = "start"
    /\ out' = out \o <<Line("running", "none", "running tests: ", << >>, 0, 0),
                       Line("started", "none",
                            "process started, waiting for process to finish",
                            << >>, 0, 0)>>
    /\ pc' = "wait"
    /\ UNCHANGED <<panic_message, test_exit_code, buffer, doc,
                   index_json_string, test_pass, ignore_regexes, ti, ei>>

\* .spawn().expect("failed to start test process")
SpawnFail ==
    /\ pc = "start"
    /\ out' = out \o <<Line("running", "none", "running tests: ", << >>, 0, 0)>>
    /\ pc' = "panic"
    /\ panic_message' = "failed to start test process"
    /\ UNCHANGED <<test_exit_code, buffer, doc, index_json_string, test_pass,
                   ignore_regexes, ti, ei>>

\* a slip: the return after the status is reported is missing
AfterWaitNoReturn(status) == "load"

\* where main goes once wait() has returned status
AfterWait(status) ==
    IF success(status) THEN "load" ELSE "returned"

WaitLine(status) ==
    IF success(status)
    THEN Line("waited", "none", "done waiting for process", << >>, 0, 0)
    ELSE IF status.kind = "code"
    THEN Line("status", "red", "exited with status code: ",
              Decimal(status.code), 0, 0)
    ELSE Line("signal", "red", "process terminated by signal", << >>, 0, 0)

WaitExited ==
    /\ pc = "wait"
    /\ \E code \in ExitCodes :
          LET status == [kind |-> "code", code |-> code]
          IN  /\ test_exit_code' = status
              /\ out' = Append(out, WaitLine(status))
              /\ pc' = AfterWait(status)
    /\ UNCHANGED <<panic_message, buffer, doc, index_json_string, test_pass,
                   ignore_regexes, ti, ei>>

WaitSignalled ==
    /\ pc = "wait"
    /\ LET status == [kind |-> "signal", code |-> 0]
       IN  /\ test_exit_code' = status
           /\ out' = Append(out, WaitLine(status))
           /\ pc' = AfterWait(status)
    /\ UNCHANGED <<panic_message, buffer, doc, index_json_string, test_pass,
                   ignore_regexes, ti, ei>>

\* load_file: the file opens and is read
LoadFile ==
    /\ pc = "load"
    /\ LET r == utf_from_bytes(buffer)
       IN  /\ index_json_string' = r.text
           /\ pc' = IF r.panic THEN "panic" ELSE "decode"
           /\ panic_message' = IF r.panic THEN "range start index out of range"
                                ELSE panic_message
    /\ UNCHANGED <<out, test_exit_code, buffer, doc, test_pass,
                   ignore_regexes, ti, ei>>

\* load_file: File::open(..).expect("failed to open file")
LoadFileFail ==
    /\ pc = "load"
    /\ pc' = "panic"
    /\ panic_message' = "failed to open file"
    /\ UNCHANGED <<out, test_exit_code, buffer, doc, index_json_string,
                   test_pass, ignore_regexes, ti, ei>>

\* where the loop over the tests stands once test t is finished
AfterTest(tests, t) == IF t < Len(tests) THEN "tests" ELSE "summary"

Decode ==
    /\ pc = "decode"
    /\ from_str_ok(index_json_string, doc)
    /\ LET decoded == from_str(doc)
           sorted == [decoded EXCEPT !.tests = sort_by(decoded.tests)]
       IN  /\ test_pass' = sorted
           /\ pc' = AfterTest(sorted.tests, 0)
    /\ ti' = 1
    /\ UNCHANGED <<panic_message, out, test_exit_code, buffer, doc,
                   index_json_string, ignore_regexes, ei>>

\* .expect("invalid json")
DecodeFail ==
    /\ pc = "decode"
    /\ ~from_str_ok(index_json_string, doc)
    /\ pc' = "panic"
    /\ panic_message' = "invalid json"
    /\ UNCHANGED <<out, test_exit_code, buffer, doc, index_json_string,
                   test_pass, ignore_regexes, ti, ei>>

\* the match arms of test.state that loop over test.entries
LoopsOverEntries(state) == state \in {"Success", "Fail"}

TestLine(t, k) ==
    IF t.state = "Success"
    THEN Line("test", pass_message.color, pass_message.label,
              t.full_test_path, k, 0)
    ELSE IF t.state = "Fail"
    THEN Line("test", fail_message.color, fail_message.label,
              t.full_test_path, k, 0)
    ELSE Line("test", warn_message.color, warn_message.label,
              t.full_test_path, k, 0)

\* "{}{}{}": spacer, label, message
MessageLine(log, e, t, k) ==
    Line("entry", log.color, log.label, e.message, t, k)

\* "{}{}{}:{}": spacer, spacer, filename, line number
LocationLine(e, t, k) ==
    Line("location", "none", "", e.filename \o <<58>> \o Decimal(e.line_number),
         t, k)

\* a slip in the Fail arm: the Error arm loses its location line
FailEntryLinesNoLocation(e, t, k) ==
    IF e.entry_type = "Info"
    THEN <<MessageLine(log_info, e, t, k)>>
    ELSE IF e.entry_type = "Warning"
    THEN <<MessageLine(log_warn, e, t, k), LocationLine(e, t, k)>>
    ELSE <<MessageLine(log_error, e, t, k)>>

\* match entry.event.entry_type in the Fail arm
FailEntryLines(e, t, k) ==
    IF e.entry_type = "Info"
    THEN <<MessageLine(log_info, e, t, k)>>
    ELSE IF e.entry_type = "Warning"
    THEN <<MessageLine(log_warn, e, t, k), LocationLine(e, t, k)>>
    ELSE <<MessageLine(log_error, e, t, k), LocationLine(e, t, k)>>

\* a slip in the Success arm: Info entries are printed as in the Fail arm
SuccessEntryLinesWithInfo(e, t, k) == FailEntryLines(e, t, k)

\* match entry.event.entry_type in the Success arm
SuccessEntryLines(e, t, k) ==
    IF e.entry_type = "Warning"
    THEN <<MessageLine(log_warn, e, t, k), LocationLine(e, t, k)>>
    ELSE IF e.entry_type = "Error"
    THEN <<MessageLine(log_error, e, t, k), LocationLine(e, t, k)>>
    ELSE << >>

EntryLines(state, e, t, k) ==
    IF state = "Success" THEN SuccessEntryLines(e, t, k)
    ELSE FailEntryLines(e, t, k)

\* the println! of the test's line, then into its arm
PrintTest ==
    /\ pc = "tests"
    /\ LET t == test_pass.tests[ti]
       IN  /\ out' = Append(out, TestLine(t, ti))
           /\ IF LoopsOverEntries(t.state) /\ Len(t.entries) > 0
              THEN pc' = "entries" /\ ti' = ti
              ELSE pc' = AfterTest(test_pass.tests, ti) /\ ti' = ti + 1
    /\ ei' = 1
    /\ UNCHANGED <<panic_message, test_exit_code, buffer, doc,
                   index_json_string, test_pass, ignore_regexes>>

\* the loop over the entries moves on from entry ei of test ti
NextEntry ==
    LET t == test_pass.tests[ti]
    IN  IF ei < Len(t.entries)
        THEN pc' = "entries" /\ ti' = ti /\ ei' = ei + 1
        ELSE pc' = AfterTest(test_pass.tests, ti) /\ ti' = ti + 1 /\ ei' = 1

CurrentEntry == test_pass.tests[ti].entries[ei]

\* regex::Regex::new(ignore_regex).unwrap() panics
EntryPanic ==
    /\ pc = "entries"
    /\ should_ignore_message(CurrentEntry.message, ignore_regexes) = "panic"
    /\ pc' = "panic"
    /\ panic_message' = "called Result::unwrap() on an Err value"
    /\ UNCHANGED <<out, test_exit_code, buffer, doc, index_json_string,
                   test_pass, ignore_regexes, ti, ei>>

\* should_ignore_message(..) is true: continue
EntryIgnored ==
    /\ pc = "entries"
    /\ should_ignore_message(CurrentEntry.message, ignore_regexes) = "true"
    /\ NextEntry
    /\ UNCHANGED <<panic_message, out, test_exit_code, buffer, doc,
                   index_json_string, test_pass, ignore_regexes>>

\* should_ignore_message(..) is false: the match on the entry's type
EntryMatched ==
    /\ pc = "entries"
    /\ should_ignore_message(CurrentEntry.message, ignore_regexes) = "false"
    /\ out' = out \o EntryLines(test_pass.tests[ti].state, CurrentEntry, ti, ei)
    /\ NextEntry
    /\ UNCHANGED <<panic_message, test_exit_code, buffer, doc,
                   index_json_string, test_pass, ignore_regexes>>

\* " passed, ", " failed, ", " other", "s elapsed"
PassedText == <<32, 112, 97, 115, 115, 101, 100, 44, 32>>
FailedText == <<32, 102, 97, 105, 108, 101, 100, 44, 32>>
OtherText == <<32, 111, 116, 104, 101, 114>>
ElapsedText == <<115, 32, 101, 108, 97, 112, 115, 101, 100>>

\* format!("{} passed, {} failed, {} other", ..)
SummaryText(succeeded_count, failed_count, other_count) ==
    Decimal(succeeded_count) \o PassedText \o Decimal(failed_count)
    \o FailedText \o Decimal(other_count) \o OtherText

\* a slip: red is decided by the tests present, not by the failed count
SummaryColorByTests(tp) ==
    IF \E k \in 1..Len(tp.tests) : tp.tests[k].state = "Fail" THEN "red"
    ELSE IF tp.not_run > 0 \/ tp.succeeded_with_warnings > 0 THEN "yellow"
    ELSE "bright_green"

SummaryColor(tp) ==
    IF tp.failed > 0 THEN "red"
    ELSE IF tp.not_run > 0 \/ tp.succeeded_with_warnings > 0 THEN "yellow"
    ELSE "bright_green"

SummaryLine(tp) ==
    Line("summary", SummaryColor(tp), "",
         SummaryText(tp.succeeded, tp.failed,
                     WrappingAdd(tp.not_run, tp.succeeded_with_warnings)),
         0, 0)

\* the sum of line 239 fits, or overflow checks are off and it wraps
PrintSummary ==
    /\ pc = "summary"
    /\ out' = Append(out, SummaryLine(test_pass))
    /\ pc' = "elapsed"
    /\ UNCHANGED <<panic_message, test_exit_code, buffer, doc,
                   index_json_string, test_pass, ignore_regexes, ti, ei>>

\* overflow checks are on: "attempt to add with overflow"
SummaryOverflow ==
    /\ pc = "summary"
    /\ AddOverflows(test_pass.not_run, test_pass.succeeded_with_warnings)
    /\ pc' = "panic"
    /\ panic_message' = "attempt to add with overflow"
    /\ UNCHANGED <<out, test_exit_code, buffer, doc, index_json_string,
                   test_pass, ignore_regexes, ti, ei>>

PrintElapsed ==
    /\ pc = "elapsed"
    /\ out' = Append(out, Line("elapsed", "none", "",
                               Decimal(test_pass.total_duration) \o ElapsedText,
                               0, 0))
    /\ pc' = "done"
    /\ UNCHANGED <<panic_message, test_exit_code, buffer, doc,
                   index_json_string, test_pass, ignore_regexes, ti, ei>>

Next ==
    \/ Spawn
    \/ SpawnFail
    \/ WaitExited
    \/ WaitSignalled
    \/ LoadFile
    \/ LoadFileFail
    \/ Decode
    \/ DecodeFail
    \/ PrintTest
    \/ EntryPanic
    \/ EntryIgnored
    \/ EntryMatched
    \/ PrintSummary
    \/ SummaryOverflow
    \/ PrintElapsed

\* the status the process ends with: 101 after a panic, 0 when main returns
ProcessExitStatus == IF pc = "panic" THEN 101 ELSE 0

Terminated == pc \in {"panic", "returned", "done"}

\* ------------------------------------------------------------------ inputs
\* "f"; "A", "AB", "B"; "ab", "ca"; "^a", "a", "("; the bytes of the marker,
\* the lead byte C3 and the brace
FileName == <<102>>
Paths == {<<65>>, <<65, 66>>, <<66>>}
Messages == {<<97, 98>>, <<99, 97>>}
Patterns == {<<94, 97>>, <<97>>, <<40>>}
Bytes == {239, 187, 191, 195, 123}

SeqsUpTo(S, n) == UNION {[1..k -> S] : k \in 0..n}

\* lists of distinct patterns
RegexLists(n) ==
    {l \in SeqsUpTo(Patterns, n) :
        \A a, b \in 1..Len(l) : a # b => l[a] # l[b]}

\* entry k of input test t, numbered so that its location names it
MkEntry(tm, t, k) ==
    [entry_type |-> tm[1], message |-> tm[2], filename |-> FileName,
     line_number |-> 10 * t + k]

MkTest(x, t) ==
    [full_test_path |-> x[1], state |-> x[2],
     entries |-> [k \in 1..Len(x[3]) |-> MkEntry(x[3][k], t, k)]]

MkTests(f) == [t \in 1..Len(f) |-> MkTest(f[t], t)]

MkDoc(syntax, counts, in_process, tests) ==
    [syntax |-> syntax, succeeded |-> counts[1],
     succeeded_with_warnings |-> counts[2], failed |-> counts[3],
     not_run |-> counts[4], in_process |-> in_process, total_duration |-> 7,
     tests |-> tests]

Input(buf, d, regexes) == [buffer |-> buf, doc |-> d, regexes |-> regexes]

PlainDocs(testSeqs) ==
    {MkDoc("ok", <<1, 0, 1, 0>>, << >>, MkTests(f)) : f \in testSeqs}

\* one test of any state with up to MaxEntries entries, any list of patterns
EntryInputs ==
    {Input(<<123>>, d, l) :
        d \in PlainDocs({<<x>> :
                          x \in {<<65>>} \X TestResult
                            \X SeqsUpTo(EntryType \X Messages, MaxEntries)}),
        l \in RegexLists(MaxPatterns)}

\* up to MaxTests tests with at most one entry each
TestInputs ==
    {Input(<<123>>, d, l) :
        d \in PlainDocs(SeqsUpTo({<<65>>, <<66>>}
                                 \X {"Success", "Fail", "NotRun"}
                                 \X SeqsUpTo(EntryType \X {<<99, 97>>}, 1),
                                 MaxTests)),
        l \in {<< >>, <<(<<94, 97>>)>>, <<(<<99>>)>>}}

\* up to MaxSortTests tests without entries
SortInputs ==
    {Input(<<123>>, d, << >>) :
        d \in PlainDocs(SeqsUpTo(Paths \X {"Success", "Fail", "NotRun"}
                                 \X {<< >>},
                                 MaxSortTests))}

\* the aggregate counts, with at most one test
SummaryInputs ==
    {Input(<<123>>, MkDoc("ok", c, ip, MkTests(f)), << >>) :
        c \in {0, 2} \X {0, 1, I32Max} \X {0, 1} \X {0, 1, I32Max},
        ip \in {<< >>, <<3>>},
        f \in SeqsUpTo({<<65>>} \X {"Success", "Fail"} \X {<< >>}, 1)}

OneTest(state, type) ==
    MkTests(<<(<<(<<65>>), state, <<(<<type, <<99, 97>>>>)>>>>)>>)

\* documents that decode and documents that do not
FlowDocs ==
    {MkDoc("ok", <<2, 0, 1, 0>>, << >>, OneTest("Fail", "Error")),
     MkDoc("ok", <<2, 1, 0, I32Max>>, << >>, OneTest("Success", "Warning")),
     MkDoc("invalid", <<2, 0, 1, 0>>, << >>, OneTest("Fail", "Error")),
     MkDoc("ok", <<2, 0, 1, 0>>, << >>, OneTest("Unknown", "Error")),
     MkDoc("ok", <<2, 0, 1, 0>>, << >>, OneTest("Fail", "Fatal")),
     MkDoc("missing_field", <<2, 0, 1, 0>>, << >>, OneTest("Fail", "Error")),
     MkDoc("mistyped_field", <<2, 0, 1, 0>>, << >>, OneTest("Fail", "Error"))}

FlowInputs ==
    {Input(b, d, l) :
        b \in {<<123>>, <<239, 187, 191, 123>>,
               <<239, 187, 191, 239, 187, 191, 123>>, <<32, 123>>},
        d \in FlowDocs,
        l \in {<< >>, <<(<<99>>)>>, <<(<<40>>)>>}}

\* any bytes of up to MaxBufLen in front of a document that decodes
UtfInputs ==
    {Input(b, MkDoc("ok", <<2, 0, 1, 0>>, << >>, OneTest("Fail", "Error")),
           << >>) :
        b \in SeqsUpTo(Bytes, MaxBufLen)}

InitWith(inputs) ==
    /\ \E inp \in inputs :
          /\ buffer = inp.buffer
          /\ doc = inp.doc
          /\ ignore_regexes = inp.regexes
    /\ pc = "start"
    /\ out = << >>
    /\ panic_message = ""
    /\ test_exit_code = Pending
    /\ index_json_string = << >>
    /\ test_pass = NoTestPass
    /\ ti = 1
    /\ ei = 1

Init == InitWith(EntryInputs \cup TestInputs \cup FlowInputs)

Spec == Init /\ [][Next]_vars

InitSort == InitWith(SortInputs \cup FlowInputs)

SpecSort == InitSort /\ [][Next]_vars

InitSummary == InitWith(SummaryInputs \cup FlowInputs)

SpecSummary == InitSummary /\ [][Next]_vars

InitUtf == InitWith(UtfInputs \cup FlowInputs)

SpecUtf == InitUtf /\ [][Next]_vars

\* -------------------------------------------------------------- properties
Tests == test_pass.tests

\* the positions in out of the lines printed for entry k of test t
EntryLinesOf(t, k) ==
    {i \in 1..Len(out) : /\ out[i].kind \in {"entry", "location"}
                         /\ out[i].test = t
                         /\ out[i].entry = k}

Rendered(t, k) == EntryLinesOf(t, k) # {}

\* the loop over the entries has moved past entry k of test t
Processed(t, k) == t < ti \/ (t = ti /\ k < ei)

Finished == pc = "done"

\* C1: which entries may show is decided by the test's state and the entry's
\* type: in a Success test an Info entry is never printed and a Warning or
\* Error entry is (with no ignore pattern); in a Fail test entries of the
\* three types are printed (with no ignore pattern); for a test of any other
\* state only its one test line is printed, whatever its entries are.
C1_VisibilityByBucket ==
    \A t \in 1..Len(Tests) :
        LET T == Tests[t]
        IN  /\ (T.state \notin {"Success", "Fail"}) =>
                  \A i \in 1..Len(out) : out[i].test = t => out[i].kind = "test"
            /\ (t < ti) =>
                  Cardinality({i \in 1..Len(out) :
                                  out[i].test = t /\ out[i].kind = "test"}) = 1
            /\ \A k \in 1..Len(T.entries) :
                  LET e == T.entries[k]
                  IN  /\ (T.state = "Success" /\ e.entry_type = "Info")
                            => ~Rendered(t, k)
                      /\ ( /\ T.state = "Success"
                           /\ e.entry_type \in {"Warning", "Error"}
                           /\ Processed(t, k)
                           /\ ignore_regexes = << >> )
                            => Rendered(t, k)
                      /\ ( /\ T.state = "Fail"
                           /\ e.entry_type \in {"Info", "Warning", "Error"}
                           /\ Processed(t, k)
                           /\ ignore_regexes = << >> )
                            => Rendered(t, k)

\* a finished run over a Success test with an Info and a Warning entry and
\* no ignore pattern: the Warning entry is printed, the Info entry is not
C1_Witness ==
    /\ Finished
    /\ ignore_regexes = << >>
    /\ \E t \in 1..Len(Tests) :
          /\ Tests[t].state = "Success"
          /\ \E k, m \in 1..Len(Tests[t].entries) :
                /\ Tests[t].entries[k].entry_type = "Info"
                /\ ~Rendered(t, k)
                /\ Tests[t].entries[m].entry_type = "Warning"
                /\ Rendered(t, m)

\* the entry may show, by its test's state and its type
Eligible(T, e) ==
    \/ T.state = "Fail"
    \/ T.state = "Success" /\ e.entry_type \in {"Warning", "Error"}

\* some configured pattern is a regular expression that matches message
MatchesSome(message) ==
    \E i \in 1..Len(ignore_regexes) :
        RegexNewOk(ignore_regexes[i]) /\ is_match(ignore_regexes[i], message)

\* C2: an eligible entry the loop has passed is printed exactly when its
\* message matches none of the ignore patterns (an unanchored match, any one
\* pattern suffices), in Success and Fail tests and for the three types
\* alike; with no pattern configured nothing is suppressed.
C2_IgnoreRule ==
    \A t \in 1..Len(Tests) : \A k \in 1..Len(Tests[t].entries) :
        LET e == Tests[t].entries[k]
        IN  (Processed(t, k) /\ Eligible(Tests[t], e)) =>
                (Rendered(t, k) <=> ~MatchesSome(e.message))

\* a finished run with two patterns, where one eligible entry is suppressed
\* by the second pattern alone
C2_Witness ==
    /\ Finished
    /\ Len(ignore_regexes) = 2
    /\ \E t \in 1..Len(Tests) : \E k \in 1..Len(Tests[t].entries) :
          /\ Eligible(Tests[t], Tests[t].entries[k])
          /\ ~is_match(ignore_regexes[1], Tests[t].entries[k].message)
          /\ is_match(ignore_regexes[2], Tests[t].entries[k].message)
          /\ ~Rendered(t, k)

InvalidConfigured ==
    \E i \in 1..Len(ignore_regexes) : ~RegexNewOk(ignore_regexes[i])

\* C3: with a malformed ignore pattern configured the run ends in a fatal
\* error before any entry is examined: no entry is ever passed by the loop
\* and the run never gets as far as the summary.
C3_FailFast ==
    InvalidConfigured =>
        /\ pc \notin {"summary", "elapsed", "done"}
        /\ \A t \in 1..Len(Tests) : \A k \in 1..Len(Tests[t].entries) :
              LoopsOverEntries(Tests[t].state) => ~Processed(t, k)

LabelFor(type) ==
    IF type = "Info" THEN log_info.label
    ELSE IF type = "Warning" THEN log_warn.label
    ELSE log_error.label

Report(i) == out[i].kind \in {"test", "entry", "location"}

\* C4: a printed Warning or Error entry makes exactly two lines, its label
\* and message and directly beneath it filename:line_number of that entry; a
\* printed Info entry makes exactly one line and no location line; the lines
\* of a test's entries come after the test's line, before the next test's
\* line, in the order of the entries.
C4_EntryLines ==
    /\ \A i \in 1..Len(out) :
          LET l == out[i]
          IN  /\ (l.kind = "entry") =>
                    LET e == Tests[l.test].entries[l.entry]
                    IN  /\ l.text = e.message
                        /\ l.label = LabelFor(e.entry_type)
                        /\ \E j \in 1..(i - 1) :
                              out[j].kind = "test" /\ out[j].test = l.test
                        /\ IF e.entry_type \in {"Warning", "Error"}
                           THEN /\ i < Len(out)
                                /\ out[i + 1].kind = "location"
                                /\ out[i + 1].test = l.test
                                /\ out[i + 1].entry = l.entry
                                /\ out[i + 1].text =
                                      e.filename \o <<58>> \o Decimal(e.line_number)
                                /\ EntryLinesOf(l.test, l.entry) = {i, i + 1}
                           ELSE /\ EntryLinesOf(l.test, l.entry) = {i}
                                /\ (i < Len(out)) => out[i + 1].kind # "location"
              /\ (l.kind = "location") =>
                    /\ i > 1
                    /\ out[i - 1].kind = "entry"
                    /\ out[i - 1].test = l.test
                    /\ out[i - 1].entry = l.entry
                    /\ out[i - 1].label \in {log_warn.label, log_error.label}
    /\ \A i, j \in 1..Len(out) :
          (i < j /\ Report(i) /\ Report(j)) =>
              \/ out[i].test < out[j].test
              \/ out[i].test = out[j].test /\ out[i].entry <= out[j].entry

\* a finished run that printed an Info entry and then an Error entry of one
\* test, the second with its location line
C4_Witness ==
    /\ Finished
    /\ \E i \in 1..Len(out) :
          /\ i + 2 <= Len(out)
          /\ out[i].kind = "entry" /\ out[i].label = log_info.label
          /\ out[i + 1].kind = "entry" /\ out[i + 1].label = log_error.label
          /\ out[i + 1].test = out[i].test
          /\ out[i + 2].kind = "location"

IsTestLine(l) == l.kind = "test"

TestLines == SelectSeq(out, IsTestLine)

StateLabel(state) ==
    IF state = "Success" THEN pass_message.label
    ELSE IF state = "Fail" THEN fail_message.label
    ELSE warn_message.label

\* the place of input test k in the stable ascending order by path: one more
\* than the number of tests of a smaller path, or of an equal path and before
Rank(k) ==
    1 + Cardinality({j \in 1..Len(doc.tests) :
            LET c == StrCmp(doc.tests[j].full_test_path,
                            doc.tests[k].full_test_path)
            IN  c < 0 \/ (c = 0 /\ j < k)})

\* C5: there is one test line per test and the test lines are the tests of
\* the report in the stable ascending order by full_test_path: the paths do
\* not decrease, every input test has its line, and tests of equal paths
\* keep the order they had in the report.
C5_SortedTestLines ==
    /\ Len(TestLines) <= Len(doc.tests)
    /\ (pc \in {"summary", "elapsed", "done"}) =>
          Len(TestLines) = Len(doc.tests)
    /\ \A i, j \in 1..Len(TestLines) :
          (i < j) => StrCmp(TestLines[i].text, TestLines[j].text) <= 0
    /\ \A k \in 1..Len(doc.tests) :
          (Rank(k) <= Len(TestLines)) =>
              /\ TestLines[Rank(k)].text = doc.tests[k].full_test_path
              /\ TestLines[Rank(k)].label = StateLabel(doc.tests[k].state)

\* a finished run over three tests given out of order, two of one path and
\* of different states
C5_Witness ==
    /\ Finished
    /\ Len(doc.tests) = 3
    /\ StrCmp(doc.tests[1].full_test_path, doc.tests[2].full_test_path) > 0
    /\ doc.tests[1].full_test_path = doc.tests[3].full_test_path
    /\ doc.tests[1].state # doc.tests[3].state
    /\ Len(TestLines) = 3

\* the digits of a + b + carry for a, b >= 0, added place by place
RECURSIVE SumDigits(_, _, _)
SumDigits(a, b, carry) ==
    IF a = 0 /\ b = 0 /\ carry = 0 THEN << >>
    ELSE LET d == (a % 10) + (b % 10) + carry
         IN  SumDigits(a \div 10, b \div 10, d \div 10) \o <<48 + (d % 10)>>

\* the decimal text of the integer a + b
SumDecimal(a, b) ==
    IF ~AddOverflows(a, b) THEN Decimal(a + b)
    ELSE IF b > 0 THEN SumDigits(a, b, 0)
    ELSE <<45>> \o SumDigits(-(a + 1), -(b + 1), 2)

\* C6: the text of the summary line is "<succeeded> passed, <failed> failed,
\* <other> other" with the report's own succeeded and failed counts and
\* other = notRun + succeededWithWarnings, whatever the tests of the report
\* and the color of the line are.
C6_SummaryText ==
    \A i \in 1..Len(out) :
        (out[i].kind = "summary") =>
            out[i].text = Decimal(doc.succeeded) \o PassedText
                          \o Decimal(doc.failed) \o FailedText
                          \o SumDecimal(doc.not_run, doc.succeeded_with_warnings)
                          \o OtherText

\* C7: the color of the summary line is red when failed > 0, else yellow
\* when notRun > 0 or succeededWithWarnings > 0, else bright green; neither
\* the states of the tests nor inProcess enter into it.
C7_SummaryColor ==
    \A i \in 1..Len(out) :
        (out[i].kind = "summary") =>
            out[i].color =
                IF doc.failed > 0 THEN "red"
                ELSE IF doc.not_run > 0 \/ doc.succeeded_with_warnings > 0
                THEN "yellow"
                ELSE "bright_green"

\* a finished run over a report with failed = 0, a test of state Fail and an
\* inProcess count: the summary line is bright green
C7_Witness ==
    /\ Finished
    /\ doc.failed = 0
    /\ doc.in_process # << >>
    /\ \E k \in 1..Len(doc.tests) : doc.tests[k].state = "Fail"
    /\ \E i \in 1..Len(out) :
          out[i].kind = "summary" /\ out[i].color = "bright_green"

ReportPrinted ==
    \E i \in 1..Len(out) :
        out[i].kind \in {"test", "entry", "location", "summary", "elapsed"}

\* the document is JSON of the schema: its text begins at the brace and
\* every state and type is one of the literals of the enums
WellFormed ==
    /\ SkipWs(index_json_string) = <<123>>
    /\ doc.syntax = "ok"
    /\ \A t \in 1..Len(doc.tests) :
          /\ doc.tests[t].state \in
                {"NotRun", "InProcess", "Fail", "Success", "NotEnoughParticipants"}
          /\ \A k \in 1..Len(doc.tests[t].entries) :
                doc.tests[t].entries[k].entry_type \in {"Info", "Warning", "Error"}

ChildFailed ==
    \/ test_exit_code.kind = "signal"
    \/ test_exit_code.kind = "code" /\ test_exit_code.code # 0

\* C8: no line of the report is printed unless the child has exited with
\* success and the whole document has decoded: the file is read only after
\* the wait, a failed child ends the run before the file is read, and a
\* document that does not decode ends it with nothing of the report printed.
C8_ReportOnlyAfterDecode ==
    /\ ReportPrinted => (success(test_exit_code) /\ WellFormed)
    /\ ( \/ pc \in {"decode", "tests", "entries", "summary", "elapsed", "done"}
         \/ index_json_string # << >>
         \/ test_pass # NoTestPass ) => success(test_exit_code)
    /\ ChildFailed => (pc = "returned" /\ index_json_string = << >>)
    /\ (pc = "tests" \/ pc = "entries") => WellFormed
    /\ (panic_message = "invalid json") => ~ReportPrinted

\* a finished run that printed the report after the child's success
C8_Witness ==
    /\ Finished
    /\ success(test_exit_code)
    /\ \E i \in 1..Len(out) : out[i].kind = "test"
    /\ \E i \in 1..Len(out) : out[i].kind = "elapsed"

\* C9: the program ends with a status other than 0 whenever the child exits
\* with a code other than 0 or is ended by a signal, or the document does
\* not decode.
C9_NonZeroExit ==
    (Terminated /\ (ChildFailed \/ panic_message = "invalid json")) =>
        ProcessExitStatus # 0

StartsWithBomBytes(b) ==
    Len(b) >= 3 /\ b[1] = 239 /\ b[2] = 187 /\ b[3] = 191

\* load_file has returned the text of buffer
Loaded ==
    \/ pc \in {"decode", "tests", "entries", "summary", "elapsed", "done"}
    \/ panic_message \in {"invalid json", "attempt to add with overflow",
                          "called Result::unwrap() on an Err value"}

\* C10: utf_from_bytes gives the lossy decoding of the buffer without its
\* first three bytes when these are EF BB BF, and the lossy decoding of the
\* whole buffer otherwise, so that a marker in front of bytes that do not
\* begin with one changes nothing; it never indexes past the buffer.
C10_BomStripped ==
    /\ panic_message # "range start index out of range"
    /\ Loaded =>
          index_json_string =
              IF StartsWithBomBytes(buffer)
              THEN from_utf8_lossy(SubSeq(buffer, 4, Len(buffer)))
              ELSE from_utf8_lossy(buffer)
    /\ (Loaded /\ StartsWithBomBytes(buffer)
               /\ ~StartsWithBomBytes(SubSeq(buffer, 4, Len(buffer)))) =>
          (index_json_string = << >> \/ index_json_string[1] # Bom)

\* the text loaded from a marker followed by a byte that is no UTF-8
C10_Witness ==
    /\ pc = "decode"
    /\ StartsWithBomBytes(buffer)
    /\ Len(buffer) > 3
    /\ index_json_string[1] = ReplacementChar

====
